---- MODULE Spec2Model ----
(***************************************************************************)
(* The task manager of the rCore ch3 kernel (os/src/task/mod.rs) and the   *)
(* process syscalls that drive it (os/src/syscall/process.rs): the task    *)
(* table, round-robin selection, the context-switch handoff, the per-task  *)
(* syscall counters and the first-dispatch timestamp.                      *)
(*                                                                         *)
(* The machine has one hart and no preemption: one kernel control flow     *)
(* runs at a time.  pc is its position; a handler is split only where the  *)
(* code itself has a call boundary that other code can observe             *)
(* (mark_current_* / run_next_task / __switch).                            *)
(***************************************************************************)
EXTENDS Integers, Sequences, FiniteSets, TLC

\* ---------------------------------------------------------------- bounds
\* Capacity of the task table (config::MAX_APP_NUM; the table is an array
\* of this many TCBs whatever num_app is).
MAX_APP_NUM == 3
\* The clock get_time_ms reads runs from 0 to MaxTime.
MaxTime == 1
\* Total number of yield syscalls issued in one run.
MaxYields == 3
\* Total number of task_info syscalls issued in one run.
MaxInfo == 1

\* -------------------------------------------------------------- constants
\* Syscall ids (the ABI of the environment).
SYSCALL_EXIT == 93
SYSCALL_YIELD == 124
SYSCALL_TASK_INFO == 410
\* syscall_times has one u32 bucket per id below MAX_SYSCALL_NUM; the model
\* keeps the buckets of the ids that are issued.
SyscallIds == {SYSCALL_EXIT, SYSCALL_YIELD, SYSCALL_TASK_INFO}

TaskIds == 0 .. (MAX_APP_NUM - 1)

\* Option<usize>
None == << >>
Some(x) == << x >>
is_none(o) == o = None
unwrap(o) == o[1]

\* The `_unused` TaskContext local of run_first_task: not a slot of the table.
UNUSED == 0 - 1
\* "no task found" of find_next_task, and "no switch pending".
NoTask == 0 - 1
NoSwitch == [cur |-> NoTask, next |-> NoTask]
NoInfo == [task |-> NoTask, status |-> "UnInit", syscall_times |-> << >>,
           time |-> 0, issued_then |-> << >>, called_at |-> 0]

VARIABLES
    num_app,        \* TaskManager.num_app
    tasks,          \* TaskManagerInner.tasks : [TaskControlBlock; MAX_APP_NUM]
    current_task,   \* TaskManagerInner.current_task
    borrowed,       \* the borrow flag of the UPSafeCell around the inner
    pc,             \* position of the kernel control flow
    handler,        \* the syscall handler whose frame is on the running kernel stack
    sw,             \* the two context pointers handed to __switch
    cpu,            \* the task whose control flow the hart executes (UNUSED: boot)
    now,            \* the timer, in ms
    last_info,      \* the TaskInfo last written to user memory, and by whom
    \* history, for stating the claims
    was_running,    \* tasks that have had status Running
    issued,         \* issued[t][s]: syscalls of id s task t has trapped with
    dispatched,     \* the tasks made Running, in order
    waited          \* waited[t]: dispatches of other tasks since t became Ready

vars == << num_app, tasks, current_task, borrowed, pc, handler, sw, cpu, now,
           last_info, was_running, issued, dispatched, waited >>

\* ------------------------------------------------------------ task table
\* A TaskContext names the control flow it resumes (its kernel stack) and
\* where that flow continues (its ra).  goto_restore(init_app_cx(i)) enters
\* application i; a context __switch saved continues the flow that called
\* it, in the handler that flow was running.
TaskContext(flow, at) == [flow |-> flow, at |-> at]
goto_restore(i) == TaskContext(i, "goto_restore")

\* TASK_MANAGER: every one of the MAX_APP_NUM slots is built UnInit and then
\* set Ready with a goto_restore context by the loop over tasks.iter_mut().
InitTCB(i) ==
    [ task_status   |-> "Ready",
      task_cx       |-> goto_restore(i),
      syscall_times |-> [s \in SyscallIds |-> 0],
      first_time    |-> None ]

Running(ts) == {i \in TaskIds : ts[i].task_status = "Running"}

\* drop(inner): the RefMut is dropped, the cell is no longer borrowed.
no_drop(b) == b
drop(b) == FALSE

\* TaskManager::syscall_count, on the table.  The buckets are u32; a run
\* records far fewer than 2^32 calls, so the addition never overflows.
syscall_count_wrong_task(ts, current, syscall_id) ==
    [ts EXCEPT ![0].syscall_times[syscall_id] = @ + 1]
syscall_count_all(ts, current, syscall_id) ==
    [ts EXCEPT ![current].syscall_times = [s \in SyscallIds |-> @[s] + 1]]
syscall_count(ts, current, syscall_id) ==
    [ts EXCEPT ![current].syscall_times[syscall_id] = @ + 1]

\* TaskManager::find_next_task: the ids current+1 .. current+num_app, each
\* taken modulo num_app, the first whose status is Ready.
RECURSIVE Scan(_, _, _, _)
Scan(ts, n, id, end) ==
    IF id >= end THEN NoTask
    ELSE IF ts[id % n].task_status = "Ready" THEN id % n
    ELSE Scan(ts, n, id + 1, end)

find_next_task_from_zero(ts, current, n) == Scan(ts, n, 0, n)
find_next_task_not_last(ts, current, n) == Scan(ts, n, current + 1, current + n)
find_next_task_any(ts, current, n) == (current + 1) % n
find_next_task_capacity(ts, current, n) ==
    Scan(ts, MAX_APP_NUM, current + 1, current + MAX_APP_NUM + 1)
find_next_task_lowest(ts, current, n) ==
    IF n > 1 /\ ts[0].task_status = "Ready" /\ current = 0 THEN 0
    ELSE Scan(ts, n, current + 1, current + n + 1)
find_next_task(ts, current, n) == Scan(ts, n, current + 1, current + n + 1)

\* run_next_task, lines 149-152: the timestamp of the first dispatch.
first_time_always(ft, t) == Some(t)
first_time_never(ft, t) == ft
first_time_on_dispatch(ft, t) == IF is_none(ft) THEN Some(t) ELSE ft

\* The history variables follow the table, not the code that changes it.
Newly(ts2) == {i \in TaskIds : ts2[i].task_status = "Running"
                               /\ tasks[i].task_status # "Running"}
History(ts2) ==
    /\ was_running' = was_running \cup Running(ts2)
    /\ dispatched' = IF Newly(ts2) = {} THEN dispatched
                     ELSE Append(dispatched, CHOOSE i \in Newly(ts2) : TRUE)
    /\ waited' = [i \in TaskIds |->
                    IF i >= num_app \/ ts2[i].task_status # "Ready"
                       \/ tasks[i].task_status # "Ready"
                    THEN 0
                    ELSE IF Newly(ts2) \ {i} # {} THEN waited[i] + 1
                    ELSE waited[i]]

Init ==
    /\ num_app \in 1 .. MAX_APP_NUM
    /\ tasks = [i \in TaskIds |-> InitTCB(i)]
    /\ current_task = 0
    /\ borrowed = FALSE
    /\ pc = "boot"
    /\ handler = "none"
    /\ sw = NoSwitch
    /\ cpu = UNUSED
    /\ now = 0
    /\ last_info = NoInfo
    /\ was_running = {}
    /\ issued = [i \in TaskIds |-> [s \in SyscallIds |-> 0]]
    /\ dispatched = << >>
    /\ waited = [i \in TaskIds |-> 0]

\* exclusive_access() on a cell that is already borrowed panics.
BorrowPanic ==
    /\ pc' = "panic_borrow"
    /\ UNCHANGED << num_app, tasks, current_task, borrowed, handler, sw, cpu,
                    now, last_info, was_running, issued, dispatched, waited >>

\* The timer advances.  Its value is read only inside the kernel steps, so
\* the model lets it advance between them, while an application runs.
Tick ==
    /\ pc = "user"
    /\ now < MaxTime
    /\ now' = now + 1
    /\ UNCHANGED << num_app, tasks, current_task, borrowed, pc, handler, sw,
                    cpu, last_info, was_running, issued, dispatched, waited >>

\* TaskManager::run_first_task up to the __switch call.
run_first_task ==
    /\ pc = "boot"
    /\ IF borrowed THEN BorrowPanic
       ELSE LET ts2 == [tasks EXCEPT ![0].task_status = "Running",
                                     ![0].first_time = Some(now)]
            IN /\ tasks' = ts2
               /\ borrowed' = drop(TRUE)
               /\ sw' = [cur |-> UNUSED, next |-> 0]
               /\ pc' = "switch"
               /\ History(ts2)
               /\ UNCHANGED << num_app, current_task, handler, cpu, now,
                               last_info, issued >>

\* __switch(current_task_cx_ptr, next_task_cx_ptr): the running flow is saved
\* in the slot cur points at, the flow saved in the slot next points at runs.
switch ==
    /\ pc = "switch"
    /\ LET saved == IF sw.cur = UNUSED THEN tasks
                    ELSE [tasks EXCEPT ![sw.cur].task_cx =
                                           TaskContext(cpu, handler)]
           resumed == saved[sw.next].task_cx
       IN /\ tasks' = saved
          /\ cpu' = resumed.flow
          /\ sw' = NoSwitch
          /\ handler' = "none"
          \* goto_restore enters the application; a context saved in sys_yield
          \* returns 0 to the application; one saved in sys_exit reaches
          \* panic!("Unreachable in sys_exit!").
          /\ pc' = IF resumed.at = "sys_exit" THEN "panic_unreachable" ELSE "user"
          /\ History(saved)
    /\ UNCHANGED << num_app, current_task, borrowed, now, last_info, issued >>

\* The trap path: syscall(syscall_id, args) records the call for the current
\* task (record_syscall_times) and then runs the handler of that id.
HandlerOf(syscall_id) ==
    IF syscall_id = SYSCALL_YIELD THEN "sys_yield"
    ELSE IF syscall_id = SYSCALL_EXIT THEN "sys_exit"
    ELSE "sys_task_info"

\* The number of syscalls of one id the tasks of S have issued.
RECURSIVE Issued(_, _)
Issued(S, syscall_id) ==
    IF S = {} THEN 0
    ELSE LET i == CHOOSE x \in S : TRUE
         IN issued[i][syscall_id] + Issued(S \ {i}, syscall_id)

syscall(syscall_id) ==
    /\ pc = "user"
    /\ syscall_id = SYSCALL_YIELD => Issued(TaskIds, syscall_id) < MaxYields
    /\ syscall_id = SYSCALL_TASK_INFO => Issued(TaskIds, syscall_id) < MaxInfo
    /\ issued' = [issued EXCEPT ![cpu][syscall_id] = @ + 1]
    /\ IF borrowed THEN
          /\ pc' = "panic_borrow"
          /\ UNCHANGED << tasks, handler >>
       ELSE
          /\ tasks' = syscall_count(tasks, current_task, syscall_id)
          /\ pc' = "handler"
          /\ handler' = HandlerOf(syscall_id)
    /\ UNCHANGED << num_app, current_task, borrowed, sw, cpu, now, last_info,
                    was_running, dispatched, waited >>

\* TaskManager::mark_current_suspended / mark_current_exited, on the table.
mark_suspended_first(ts, current) == [ts EXCEPT ![0].task_status = "Ready"]
mark_suspended_skipped(ts, current) == ts
mark_suspended(ts, current) == [ts EXCEPT ![current].task_status = "Ready"]
mark_exited_as_ready(ts, current) == [ts EXCEPT ![current].task_status = "Ready"]
mark_exited(ts, current) == [ts EXCEPT ![current].task_status = "Exited"]

\* suspend_current_and_run_next, first call: mark_current_suspended().
mark_current_suspended ==
    /\ pc = "handler" /\ handler = "sys_yield"
    /\ IF borrowed THEN BorrowPanic
       ELSE /\ tasks' = mark_suspended(tasks, current_task)
            /\ pc' = "marked"
            /\ History(tasks')
            /\ UNCHANGED << num_app, current_task, borrowed, handler, sw, cpu,
                            now, last_info, issued >>

\* exit_current_and_run_next, first call: mark_current_exited().
mark_current_exited ==
    /\ pc = "handler" /\ handler = "sys_exit"
    /\ IF borrowed THEN BorrowPanic
       ELSE /\ tasks' = mark_exited(tasks, current_task)
            /\ pc' = "marked"
            /\ History(tasks')
            /\ UNCHANGED << num_app, current_task, borrowed, handler, sw, cpu,
                            now, last_info, issued >>

\* run_next_task, lines 142-152: what the second borrow does to the table.
dispatch_no_status(ts, next, t) ==
    [ts EXCEPT ![next].first_time = first_time_on_dispatch(@, t)]
dispatch(ts, next, t) ==
    [ts EXCEPT ![next].task_status = "Running",
               ![next].first_time = first_time_on_dispatch(@, t)]

\* run_next_task, lines 143-147: `current` is read before current_task is
\* updated; the pointers are to the slots of `current` and of `next`.
switch_args_after_update(current, next) == [cur |-> next, next |-> next]
switch_args(current, next) == [cur |-> current, next |-> next]

\* TaskManager::run_next_task up to the __switch call, or its panic.  The
\* borrow find_next_task takes ends when it returns; run_next_task then
\* borrows again.
run_next_task ==
    /\ pc = "marked"
    /\ IF borrowed THEN BorrowPanic
       ELSE LET next == find_next_task(tasks, current_task, num_app)
                after_find == drop(TRUE)
            IN IF next # NoTask /\ after_find THEN BorrowPanic
               ELSE IF next # NoTask
               THEN /\ tasks' = dispatch(tasks, next, now)
                    /\ current_task' = next
                    /\ sw' = switch_args(current_task, next)
                    /\ borrowed' = drop(TRUE)
                    /\ pc' = "switch"
                    /\ History(tasks')
                    /\ UNCHANGED << num_app, handler, cpu, now, last_info,
                                    issued >>
               ELSE \* panic!("All applications completed!")
                    /\ pc' = "halted"
                    /\ UNCHANGED << num_app, tasks, current_task, borrowed,
                                    handler, sw, cpu, now, last_info,
                                    was_running, issued, dispatched, waited >>

\* TaskManager::get_syscall_times / get_status / get_current_running_time,
\* on the table (the last one for a first_time that is present).
get_syscall_times(ts, current) == ts[current].syscall_times

get_status_of_first(ts, current) == ts[0].task_status
get_status(ts, current) == ts[current].task_status

get_current_running_time_of_first(ts, current, t) == t - unwrap(ts[0].first_time)
get_current_running_time(ts, current, t) == t - unwrap(ts[current].first_time)

\* sys_task_info: get_status(), get_syscall_times(), get_current_running_time()
\* written to the caller's TaskInfo.  unwrap() of an absent first_time panics.
\* Each accessor borrows the cell and releases it when it returns.
sys_task_info ==
    /\ pc = "handler" /\ handler = "sys_task_info"
    /\ IF borrowed \/ drop(TRUE) THEN BorrowPanic
       ELSE IF is_none(tasks[current_task].first_time)
       THEN /\ pc' = "panic_unwrap"
            /\ UNCHANGED << num_app, tasks, current_task, borrowed, handler,
                            sw, cpu, now, last_info, was_running, issued,
                            dispatched, waited >>
       ELSE /\ last_info' =
                  [ task          |-> cpu,
                    status        |-> get_status(tasks, current_task),
                    syscall_times |-> get_syscall_times(tasks, current_task),
                    time          |-> get_current_running_time(
                                          tasks, current_task, now),
                    issued_then   |-> issued[cpu],
                    called_at     |-> now ]
            /\ pc' = "user"
            /\ handler' = "none"
            /\ UNCHANGED << num_app, tasks, current_task, borrowed, sw, cpu,
                            now, was_running, issued, dispatched, waited >>

Next ==
    \/ Tick
    \/ run_first_task
    \/ switch
    \/ \E syscall_id \in SyscallIds : syscall(syscall_id)
    \/ mark_current_suspended
    \/ mark_current_exited
    \/ run_next_task
    \/ sys_task_info

Spec == Init /\ [][Next]_vars

\* ===================================================================
\* Properties
\* ===================================================================
\* The tasks the loader provided: the indices below num_app.
Loaded == 0 .. (num_app - 1)
AllExited == \A i \in Loaded : tasks[i].task_status = "Exited"
Count(seq, x) == Cardinality({k \in 1 .. Len(seq) : seq[k] = x})

\* C1 as stated: in every state after run_first_task in which some task is
\* not Exited, exactly one TCB is Running and it is tasks[current_task];
\* the states between mark_current_* and run_next_task included.
C1_ExclusiveAtEveryInstant ==
    (pc # "boot" /\ ~AllExited) => Running(tasks) = {current_task}

\* C1 amended: after run_first_task, outside the window between
\* mark_current_suspended / mark_current_exited and the dispatch of the
\* following run_next_task (and the halt that ends the last such window),
\* exactly one TCB is Running and current_task is its index; inside that
\* window no TCB is Running.
C1_ExclusiveOutsideWindow ==
    /\ pc \in {"switch", "user", "handler"} => Running(tasks) = {current_task}
    /\ pc \in {"marked", "halted"} => Running(tasks) = {}

C1_Witness ==
    /\ pc = "user"
    /\ current_task = 2
    /\ tasks[1].task_status = "Exited"
    /\ tasks[0].task_status = "Ready"
    /\ Running(tasks) = {2}

\* C2: while no task has exited, the k-th dispatch is of task (k-1) mod
\* num_app (each yield moves to the next index, wrapping), so any num_app
\* consecutive dispatches are of num_app different tasks.
C2_RoundRobin ==
    (\A i \in Loaded : tasks[i].task_status # "Exited") =>
        /\ \A k \in 1 .. Len(dispatched) : dispatched[k] = (k - 1) % num_app
        /\ \A k \in 1 .. Len(dispatched) :
              k + num_app - 1 <= Len(dispatched) =>
                 {dispatched[j] : j \in k .. (k + num_app - 1)} = Loaded

C2_Witness ==
    /\ num_app = 3
    /\ \A i \in Loaded : tasks[i].task_status # "Exited"
    /\ dispatched = << 0, 1, 2, 0 >>

\* C3: a run_next_task that starts with every loaded task Exited halts: it
\* changes no status and no current_task and hands nothing to __switch; and
\* the kernel halts in no other case.
C3_HaltWhenAllExited ==
    /\ [](pc = "halted" => (AllExited /\ Running(tasks) = {} /\ sw = NoSwitch))
    /\ [][(pc = "marked" /\ AllExited) =>
            (pc' = "halted" /\ tasks' = tasks /\ current_task' = current_task
             /\ sw' = sw /\ cpu' = cpu)]_vars

C3_Witness ==
    /\ pc = "halted"
    /\ num_app = 3
    /\ AllExited
    /\ Len(dispatched) >= 4

\* C4: an Exited TCB stays Exited, run_next_task never makes an Exited task
\* current, the task the hart executes outside the exit path is never an
\* Exited one, and the statement after exit_current_and_run_next in sys_exit
\* is never reached.
C4_ExitedIsTerminal ==
    /\ [](pc # "panic_unreachable")
    /\ [](pc \in {"user", "handler"} => tasks[cpu].task_status # "Exited")
    /\ [][\A i \in TaskIds :
            tasks[i].task_status = "Exited" =>
               /\ tasks'[i].task_status = "Exited"
               /\ (current_task' # current_task => current_task' # i)
               /\ (sw' # sw => sw'.next # i)]_vars

C4_Witness ==
    /\ pc = "user"
    /\ num_app = 3
    /\ tasks[1].task_status = "Exited"
    /\ tasks[1].task_cx = TaskContext(1, "sys_exit")
    /\ dispatched = << 0, 1, 2, 0, 2 >>

\* C5: find_next_task returns (c + k) mod num_app for the least k in
\* 1..num_app whose TCB is Ready, and no task exactly when none of the loaded
\* tasks is Ready; run_next_task dispatches that task, or halts.
LeastReady(ts, c, n) ==
    LET K == {k \in 1 .. n : ts[(c + k) % n].task_status = "Ready"}
    IN IF K = {} THEN NoTask
       ELSE (c + (CHOOSE k \in K : \A j \in K : k <= j)) % n

C5_NextTaskSelection ==
    /\ [](\A c \in Loaded :
            find_next_task(tasks, c, num_app) = LeastReady(tasks, c, num_app))
    /\ [](\A c \in Loaded :
            find_next_task(tasks, c, num_app) = NoTask
               <=> ~ \E i \in Loaded : tasks[i].task_status = "Ready")
    /\ [][pc = "marked" =>
            IF LeastReady(tasks, current_task, num_app) = NoTask
            THEN pc' = "halted"
            ELSE /\ current_task' = LeastReady(tasks, current_task, num_app)
                 /\ Running(tasks') = {current_task'}
                 /\ sw'.next = current_task']_vars

\* Scenario A: three tasks, task 0 yields, task 1 exits: Running 0, 1, 2.
C5_Witness ==
    /\ num_app = 3
    /\ dispatched = << 0, 1, 2 >>
    /\ tasks[0].task_status = "Ready"
    /\ tasks[1].task_status = "Exited"
    /\ tasks[2].task_status = "Running"
    /\ pc = "user"

\* C6: a TCB's first_time is present exactly if the task has had status
\* Running.
C6_FirstTimeIffWasRunning ==
    \A i \in TaskIds : (~ is_none(tasks[i].first_time)) <=> (i \in was_running)

C6_Witness ==
    /\ num_app = 3
    /\ pc = "switch"
    /\ sw.next = 1
    /\ ~ is_none(tasks[1].first_time)
    /\ is_none(tasks[2].first_time)
    /\ was_running = {0, 1}

\* C7: a first_time that is present never changes.
C7_FirstTimeStable ==
    [][\A i \in TaskIds :
          (~ is_none(tasks[i].first_time)) =>
              tasks'[i].first_time = tasks[i].first_time]_vars

C7_Witness ==
    /\ pc = "user"
    /\ now = 1
    /\ cpu = 0
    /\ tasks[0].first_time = Some(0)
    /\ Count(dispatched, 0) >= 2
    /\ \E i \in Loaded : tasks[i].first_time = Some(1)

\* C8: syscall_times[s] of a task is the number of id-s syscalls recorded for
\* it; a step that changes the counters adds 1 to one bucket of one task and
\* leaves every other bucket alone; no step lowers a bucket.
CountersChanged ==
    {ts \in TaskIds \X SyscallIds :
        tasks'[ts[1]].syscall_times[ts[2]] # tasks[ts[1]].syscall_times[ts[2]]}

C8_MonotonicCounters ==
    /\ [](\A t \in TaskIds : \A s \in SyscallIds :
             tasks[t].syscall_times[s] = issued[t][s])
    /\ [][/\ Cardinality(CountersChanged) <= 1
          /\ \A ts \in CountersChanged :
                tasks'[ts[1]].syscall_times[ts[2]]
                    = tasks[ts[1]].syscall_times[ts[2]] + 1]_vars

C8_Witness ==
    /\ \E t \in Loaded :
          /\ tasks[t].syscall_times[SYSCALL_YIELD] = 2
          /\ tasks[t].syscall_times[SYSCALL_TASK_INFO] = 1
          /\ tasks[t].syscall_times[SYSCALL_EXIT] = 1
          /\ tasks[t].task_status = "Exited"

\* C9: a step changes the counters of no task but the one the hart executes,
\* and the TaskInfo a task_info call writes holds, for every id, the number
\* of syscalls of that id the calling task has issued.
C9_CounterIsolation ==
    /\ [](last_info.task # NoTask =>
             \A s \in SyscallIds :
                 last_info.syscall_times[s] = last_info.issued_then[s])
    /\ [][\A t \in TaskIds :
             t # cpu => tasks'[t].syscall_times = tasks[t].syscall_times]_vars

C9_Witness ==
    /\ last_info.task = 1
    /\ last_info.syscall_times[SYSCALL_YIELD] = 2
    /\ last_info.syscall_times[SYSCALL_TASK_INFO] = 1
    /\ issued[0][SYSCALL_YIELD] = 1
    /\ issued[0][SYSCALL_EXIT] = 1

\* C10: whenever control is at a __switch call, the cell is not borrowed.
C10_NoBorrowAtSwitch == pc = "switch" => ~ borrowed

C10_Witness ==
    /\ pc = "switch"
    /\ sw.cur = 1
    /\ sw.next = 0
    /\ ~ borrowed

\* C11: while a task is in user code or inside a syscall handler before the
\* handler has marked it (so, in particular, throughout sys_task_info), the
\* status of tasks[current_task] is Running, and the status a task_info call
\* writes is Running.
C11_StatusIsRunning ==
    /\ pc \in {"user", "handler"} =>
          get_status(tasks, current_task) = "Running"
    /\ last_info.task # NoTask => last_info.status = "Running"

C11_Witness ==
    /\ last_info.task = 1
    /\ last_info.status = "Running"
    /\ tasks[0].task_status = "Ready"
    /\ tasks[1].task_status = "Running"
    /\ pc = "user"

\* C12: get_current_running_time never panics on unwrap(): whenever a task
\* executes, the first_time of tasks[current_task] is present; the time a
\* task_info call writes is the timer at the call less the first_time of
\* the calling task, and is not negative.
C12_RunningTime ==
    /\ pc # "panic_unwrap"
    /\ pc \in {"user", "handler"} => ~ is_none(tasks[current_task].first_time)
    /\ last_info.task # NoTask =>
          /\ last_info.time >= 0
          /\ last_info.time
                = last_info.called_at - unwrap(tasks[last_info.task].first_time)

\* a task that was first dispatched at 0, waited Ready while another ran,
\* and reads 1 ms.
C12_Witness ==
    /\ last_info.task = 0
    /\ last_info.time = 1
    /\ last_info.syscall_times[SYSCALL_YIELD] >= 1
    /\ tasks[1].first_time = Some(0)

\* C13: the cell is never found borrowed by an acquisition: the double
\* borrow panic is never reached, and the cell is free in every state from
\* which a step acquires it.
C13_NoOverlappingBorrow ==
    /\ pc # "panic_borrow"
    /\ pc \in {"boot", "user", "handler", "marked"} => ~ borrowed

\* a task that was switched away from and back, and then made a task_info
\* call, with its three acquisitions.
C13_Witness ==
    /\ pc = "user"
    /\ cpu = 0
    /\ last_info.task = 0
    /\ last_info.syscall_times[SYSCALL_YIELD] = 1
    /\ tasks[0].task_cx = TaskContext(0, "sys_yield")
    /\ dispatched = << 0, 1, 0 >>

\* C14: every slot of the table holds a context of its own task; at a
\* __switch made by run_next_task the first pointer is to the slot of the
\* task that gave up the CPU; the switch saves the running flow there and
\* the hart continues with the flow of the task the second pointer names, in
\* user code (a flow saved in sys_yield returns from it).
C14_ContextHandoff ==
    /\ [](\A i \in TaskIds : tasks[i].task_cx.flow = i)
    /\ [](pc = "switch" /\ sw.cur # UNUSED =>
             (sw.cur = cpu /\ sw.next = current_task))
    /\ [][pc = "switch" =>
            /\ sw.cur # UNUSED =>
                  tasks'[sw.cur].task_cx = TaskContext(cpu, handler)
            /\ \A i \in TaskIds \ {sw.cur} : tasks'[i].task_cx = tasks[i].task_cx
            /\ cpu' = sw.next
            /\ pc' = "user"]_vars

C14_Witness ==
    /\ pc = "user"
    /\ cpu = 0
    /\ num_app = 3
    /\ dispatched = << 0, 1, 2, 0 >>
    /\ tasks[0].task_cx = TaskContext(0, "sys_yield")
    /\ tasks[1].task_cx = TaskContext(1, "sys_exit")
    /\ tasks[2].task_cx = TaskContext(2, "sys_yield")

\* C15: no TCB is UnInit; a status changes only Ready -> Running (in the
\* dispatch of run_first_task / run_next_task), Running -> Ready (in
\* mark_current_suspended) or Running -> Exited (in mark_current_exited);
\* and the two mark operations start with tasks[current_task] Running.
StatusChanges ==
    {<< tasks[i].task_status, tasks'[i].task_status >> :
        i \in {j \in TaskIds : tasks'[j].task_status # tasks[j].task_status}}

C15_TaskStateMachine ==
    /\ [](\A i \in TaskIds : tasks[i].task_status # "UnInit")
    /\ [][/\ StatusChanges \subseteq {<< "Ready", "Running" >>,
                                       << "Running", "Ready" >>,
                                       << "Running", "Exited" >>}
          /\ << "Ready", "Running" >> \in StatusChanges
                => (pc \in {"boot", "marked"} /\ pc' = "switch")
          /\ << "Running", "Ready" >> \in StatusChanges
                => (pc = "handler" /\ handler = "sys_yield" /\ pc' = "marked")
          /\ << "Running", "Exited" >> \in StatusChanges
                => (pc = "handler" /\ handler = "sys_exit" /\ pc' = "marked")
          /\ (pc = "handler" /\ pc' = "marked")
                => tasks[current_task].task_status = "Running"]_vars

C15_Witness ==
    /\ tasks[0].task_status = "Exited"
    /\ Count(dispatched, 0) >= 2
    /\ tasks[1].task_status = "Running"
    /\ tasks[2].task_status = "Ready"
    /\ num_app = 3

\* C16: a yield by the only task that is not Exited dispatches that task
\* again: run_next_task leaves current_task and first_time as they are, sets
\* the status Running and passes the task's own slot as both pointers, and
\* the switch continues the same flow in user code.
OnlyCurrentLeft ==
    \A i \in Loaded \ {current_task} : tasks[i].task_status = "Exited"

C16_SoleTaskYield ==
    /\ [][(pc = "marked" /\ handler = "sys_yield" /\ OnlyCurrentLeft) =>
            /\ pc' = "switch"
            /\ current_task' = current_task
            /\ tasks'[current_task].task_status = "Running"
            /\ tasks'[current_task].first_time = tasks[current_task].first_time
            /\ sw' = [cur |-> current_task, next |-> current_task]]_vars
    /\ [][(pc = "switch" /\ sw.cur = sw.next) =>
            /\ pc' = "user"
            /\ cpu' = cpu
            /\ tasks'[cpu].task_cx = TaskContext(cpu, "sys_yield")]_vars

C16_Witness ==
    /\ pc = "user"
    /\ num_app = 2
    /\ tasks[0].task_status = "Exited"
    /\ tasks[1].task_status = "Running"
    /\ dispatched = << 0, 1, 1, 1 >>
    /\ now = 1
    /\ tasks[1].first_time = Some(0)

\* C17: the step of mark_current_suspended / mark_current_exited changes
\* the status of tasks[current_task] to Ready / Exited and nothing else of
\* the table, of current_task or of the contexts, and starts no switch.
C17_MarkIsPure ==
    [][(pc = "handler" /\ pc' = "marked") =>
          /\ tasks' = [tasks EXCEPT ![current_task].task_status =
                          IF handler = "sys_yield" THEN "Ready" ELSE "Exited"]
          /\ current_task' = current_task
          /\ sw' = sw /\ sw = NoSwitch
          /\ cpu' = cpu
          /\ borrowed' = borrowed]_vars

C17_Witness ==
    /\ pc = "marked"
    /\ handler = "sys_yield"
    /\ current_task = 1
    /\ tasks[1].task_status = "Ready"
    /\ tasks[1].syscall_times[SYSCALL_YIELD] = 1
    /\ tasks[0].task_status = "Ready"
    /\ tasks[0].syscall_times[SYSCALL_YIELD] = 1
    /\ tasks[0].task_cx = TaskContext(0, "sys_yield")

\* C18: in every state, the one before run_first_task and the ones between
\* a mark operation and run_next_task included, no TCB but
\* tasks[current_task] is Running (so at most one is).
C18_AtMostOneRunning ==
    /\ Running(tasks) \subseteq {current_task}
    /\ Cardinality(Running(tasks)) <= 1

C18_Witness ==
    /\ pc = "marked"
    /\ handler = "sys_exit"
    /\ Running(tasks) = {}
    /\ current_task = 2
    /\ tasks[0].task_status = "Ready"

\* C19: the slots at and above num_app stay as constructed (Ready, no
\* first_time, never Running), current_task stays below num_app, no switch
\* names such a slot, and the kernel halts exactly when the num_app loaded
\* tasks are Exited, with those slots still Ready.
Unloaded == TaskIds \ Loaded

C19_UnloadedSlotsUntouched ==
    /\ \A i \in Unloaded : tasks[i] = InitTCB(i) /\ i \notin was_running
    /\ \A i \in Unloaded : tasks[i].task_status = "Ready"
    /\ current_task \in Loaded
    /\ sw.next \notin Unloaded /\ sw.cur \notin Unloaded
    /\ \A c \in Loaded : find_next_task(tasks, c, num_app) \notin Unloaded
    /\ pc = "halted" => AllExited
    /\ (pc = "marked" /\ AllExited) =>
          find_next_task(tasks, current_task, num_app) = NoTask

C19_Witness ==
    /\ pc = "halted"
    /\ num_app = 2
    /\ num_app < MAX_APP_NUM
    /\ AllExited
    /\ tasks[num_app].task_status = "Ready"

\* C20: a loaded task that is Ready has seen at most num_app - 1 dispatches
\* of other tasks since it became Ready, and, if the running task always
\* goes on to yield or exit, it becomes Running.
C20_NoStarvation ==
    /\ [](\A i \in Loaded : waited[i] <= num_app - 1)
    /\ \A i \in TaskIds :
          (i \in Loaded /\ tasks[i].task_status = "Ready")
              ~> (tasks[i].task_status = "Running")

C20_Witness ==
    /\ num_app = 3
    /\ tasks[0].task_status = "Running"
    /\ dispatched = << 0, 1, 2, 0 >>
    /\ waited[1] = 2
    /\ tasks[1].task_status = "Ready"

\* The kernel runs every step it has started, boot calls run_first_task,
\* and an application goes on to yield or exit.
GiveUp == syscall(SYSCALL_YIELD) \/ syscall(SYSCALL_EXIT)
Kernel ==
    \/ run_first_task
    \/ switch
    \/ mark_current_suspended
    \/ mark_current_exited
    \/ run_next_task
    \/ sys_task_info

FairSpec == Spec /\ WF_vars(Kernel) /\ WF_vars(GiveUp)
====
